---- MODULE Spec2Model ----
(***************************************************************************)
(* Model of the PID controller page of app.py together with the GATT link  *)
(* of bluetooth_link.py.  One script run of the "Controller" page is one   *)
(* tick: session-state block, gain refresh, connect block, control loop,   *)
(* auto refresh.  An exception raised by a link call propagates out of the *)
(* script (app.py has no try/except): the run stops at that line and       *)
(* everything written to st.session_state before it is kept.               *)
(*                                                                         *)
(* The link.  app.py calls BluetoothLink(address), connect(),               *)
(* list_characteristics(), read_measurement(char_uuid) and                 *)
(* send_control_output(char_uuid, value).  The class in bluetooth_link.py  *)
(* takes (device_address, characteristic_uuid), has no                     *)
(* list_characteristics and takes no characteristic in its read and write, *)
(* so with that class the call of line 127 raises TypeError: that is the   *)
(* first case of RunConnectRaises.  The runs in which the link calls       *)
(* return are those of a link class with the interface app.py uses; its    *)
(* read decodes, strips and parses as bluetooth_link.py line 30 does.      *)
(*                                                                         *)
(* Numbers.  dt = 0.02 = 1/DtInv.  The PID integral and every control      *)
(* value are held as exact integers in units of 1/DtInv, so an integral of *)
(* k stands for k/50 and a control value of k for k/50; setpoints,         *)
(* measurements, errors, gains, limits and times are plain integers.       *)
(***************************************************************************)
EXTENDS Integers, Sequences, FiniteSets, TLC

\* ---- bounds of the model ----
MaxHist == 2
MaxClock == 1
MaxIntegral == 4

\* ---- program constants ----
DtInv == 50
DefaultMeasurement == 0

None == "None"

\* ---- inputs the widgets and the device can supply ----
GainSettings == { <<20, 0, 2>> }
Setpoints == { 2 }
OutputLimits == { 30 }
Addresses == { "AA", "BB" }
Characteristics == { "c1" }
Payloads == { <<" ", "3", "LF">>, <<"a", "b", "c">>, <<>>, <<"xFF">> }
ClockSteps == { 0, 1 }

\* stands for read_gatt_char raising instead of returning a payload
GattReadFails == << "BleakError" >>

VARIABLES
    pid,            \* st.session_state.pid
    bluetooth,      \* st.session_state.bluetooth: None or the link (its address)
    char_uuid,      \* st.session_state.char_uuid ("unset" while the key is absent)
    running,        \* st.session_state.running
    has_history,    \* "history" in st.session_state
    history,        \* st.session_state.history: four parallel lists
    start_time,     \* st.session_state.start_time
    now,            \* the wall clock: the value of the latest time.time()
    cfg,            \* the emergency-stop toggle and the buttons of the latest run
    clip_limit,     \* motor_output_limit as line 153 used it in the latest run, else <<>>
    measurement,    \* local of the latest run, <<>> when never assigned
    control_output, \* local of the latest run, <<>> when never assigned
    io,             \* the link calls of the latest run, in call order
    raised,         \* the latest run ended in an uncaught exception
    appended,       \* the latest run reached the history append
    rerun           \* the latest run reached st.experimental_rerun()

vars == << pid, bluetooth, char_uuid, running, has_history, history, start_time,
           now, cfg, clip_limit, measurement, control_output, io, raised, appended, rerun >>

\* ---- PID core (pid_core.py is not part of the sources at hand) ----
PID(kp, ki, kd) ==
    [kp |-> kp, ki |-> ki, kd |-> kd,
     integral |-> 0, previous_error |-> 0, has_previous |-> FALSE]

PIDReset(p) ==
    [p EXCEPT !.integral = 0, !.previous_error = 0, !.has_previous = FALSE]

\* update(setpoint, measurement, dt) with dt = 1/DtInv: the state after the call
PIDUpdateState(p, setpoint, m) ==
    LET error == setpoint - m
    IN  [p EXCEPT !.integral = p.integral + error,
                  !.previous_error = error,
                  !.has_previous = TRUE]

\* update(setpoint, measurement, dt): the value returned, in units of 1/DtInv
PIDUpdateControl(p, setpoint, m) ==
    LET error == setpoint - m
        integral == p.integral + error
        derivative == IF p.has_previous THEN (error - p.previous_error) * DtInv ELSE 0
    IN  DtInv * p.kp * error + p.ki * integral + DtInv * p.kd * derivative

\* ---- bluetooth_link.py ----
Whitespace == { " ", "LF" }
Digits == { "0", "1", "2", "3", "4", "5", "6", "7", "8", "9" }
DigitValue(c) ==
    CASE c = "0" -> 0 [] c = "1" -> 1 [] c = "2" -> 2 [] c = "3" -> 3 [] c = "4" -> 4
      [] c = "5" -> 5 [] c = "6" -> 6 [] c = "7" -> 7 [] c = "8" -> 8 [] c = "9" -> 9

\* bytes.decode(): UnicodeDecodeError on a byte that is not UTF-8
Decodable(data) == \A i \in 1..Len(data) : data[i] # "xFF"

RECURSIVE LStrip(_)
LStrip(s) == IF s # <<>> /\ Head(s) \in Whitespace THEN LStrip(Tail(s)) ELSE s

RECURSIVE RStrip(_)
RStrip(s) ==
    IF s # <<>> /\ s[Len(s)] \in Whitespace THEN RStrip(SubSeq(s, 1, Len(s) - 1)) ELSE s

\* str.strip()
Strip(s) == RStrip(LStrip(s))

RECURSIVE DecimalValue(_)
DecimalValue(s) ==
    IF s = <<>> THEN 0 ELSE 10 * DecimalValue(SubSeq(s, 1, Len(s) - 1)) + DigitValue(s[Len(s)])

\* float(text) accepts the text (the model's numerals are unsigned digit strings)
IsNumeral(s) == s # <<>> /\ \A i \in 1..Len(s) : s[i] \in Digits

\* read_measurement: the error of float(data.decode().strip()), "none" when it returns
ReadError(data) ==
    IF ~Decodable(data) \/ ~IsNumeral(Strip(data)) THEN "MALFORMED_DATA" ELSE "none"

\* read_measurement: the value float(data.decode().strip()) returns, <<>> when it raises
ReadValue(data) ==
    IF ReadError(data) = "none" THEN << DecimalValue(Strip(data)) >> ELSE <<>>

LinkCall(op, val, err) == [op |-> op, val |-> val, err |-> err]

\* ---- app.py ----
EmptyHistory == [time |-> <<>>, measurement |-> <<>>, control |-> <<>>, error |-> <<>>]

\* the block with the history list kept across a reset
SessionStateBlockKeepsHistory(reset_controller, h, st, p, t) ==
    IF ~has_history \/ reset_controller
    THEN [history |-> h, start_time |-> t, pid |-> PIDReset(p)]
    ELSE [history |-> h, start_time |-> st, pid |-> p]

\* lines 107-110: the state of (history, start_time, pid) after the block
SessionStateBlock(reset_controller, h, st, p, t) ==
    IF ~has_history \/ reset_controller
    THEN [history |-> EmptyHistory, start_time |-> t, pid |-> PIDReset(p)]
    ELSE [history |-> h, start_time |-> st, pid |-> p]

\* lines 112-115
RefreshGains(p, g) == [p EXCEPT !.kp = g[1], !.ki = g[2], !.kd = g[3]]

\* the condition without its "is None" half
ConnectWheneverAsked(connect_bluetooth, bt) == connect_bluetooth

\* line 126
ConnectCondition(connect_bluetooth, bt) == connect_bluetooth /\ bt = None

\* a clip that bounds the value from below only
ClipLowerOnly(x, lo, hi) == IF x > lo THEN x ELSE lo

\* line 153: np.clip(x, lo, hi) = minimum(maximum(x, lo), hi)
Clip(x, lo, hi) ==
    LET m == IF x > lo THEN x ELSE lo
    IN  IF m < hi THEN m ELSE hi

\* line 145
LastMeasurement(h) ==
    IF h.measurement # <<>> THEN h.measurement[Len(h.measurement)] ELSE 0

\* the appends with the error value put into the measurement list
AppendSampleSwapped(h, t, m, c, e) ==
    [time |-> Append(h.time, t), measurement |-> Append(h.measurement, e),
     control |-> Append(h.control, c), error |-> Append(h.error, m)]

\* lines 158-161
AppendSample(h, t, m, c, e) ==
    [time |-> Append(h.time, t), measurement |-> Append(h.measurement, m),
     control |-> Append(h.control, c), error |-> Append(h.error, e)]

\* an emergency-stop branch that logs its zero output like the running branch does
EmergencyStopBranchLogging(p, h, setpoint, t) ==
    [running |-> FALSE, pid |-> PIDReset(p), control_output |-> << 0 >>,
     measurement |-> << LastMeasurement(h) >>,
     error |-> setpoint - LastMeasurement(h),
     history |-> AppendSample(h, t, LastMeasurement(h), 0, setpoint - LastMeasurement(h)),
     io |-> <<>>, appended |-> TRUE]

\* lines 141-146: what the emergency-stop branch leaves behind (t is current_time)
EmergencyStopBranch(p, h, setpoint, t) ==
    [running |-> FALSE, pid |-> PIDReset(p), control_output |-> << 0 >>,
     measurement |-> << LastMeasurement(h) >>,
     error |-> setpoint - LastMeasurement(h),
     history |-> h, io |-> <<>>, appended |-> FALSE]

\* st.button is True only in the run its click triggered, so at most one button is
\* pressed in a run (lines 89 and 96)
Buttons == { "none", "reset_controller", "connect_bluetooth" }

Config(emergency_stop, button) ==
    [emergency_stop |-> emergency_stop,
     reset_controller |-> (button = "reset_controller"),
     connect_bluetooth |-> (button = "connect_bluetooth")]

Abs(x) == IF x < 0 THEN -x ELSE x

Init ==
    /\ pid = PID(20, 0, 2)
    /\ bluetooth = None
    /\ char_uuid = "unset"
    /\ running = TRUE
    /\ has_history = FALSE
    /\ history = EmptyHistory
    /\ start_time = 0
    /\ now = 0
    /\ cfg = Config(FALSE, "none")
    /\ clip_limit = <<>>
    /\ measurement = <<>>
    /\ control_output = <<>>
    /\ io = <<>>
    /\ raised = FALSE
    /\ appended = FALSE
    /\ rerun = FALSE

\* ---- one script run of the Controller page ----

\* lines 126-133 when every link call returns: the link, the characteristic, the calls
ConnectBlock(connect_bluetooth, bt, ch, address, char_option) ==
    IF ConnectCondition(connect_bluetooth, bt)
    THEN [bluetooth |-> address, char_uuid |-> char_option,
          io |-> << LinkCall("BluetoothLink", <<>>, "none"),
                    LinkCall("connect", <<>>, "none"),
                    LinkCall("list_characteristics", <<>>, "none") >>]
    ELSE [bluetooth |-> bt, char_uuid |-> ch, io |-> <<>>]

\* the link calls of lines 127-129 up to the one that raises
ConnectCalls == << "BluetoothLink", "connect", "list_characteristics" >>
RaisedConnectIo(k) ==
    [i \in 1..k |-> LinkCall(ConnectCalls[i], <<>>, IF i = k THEN "raised" ELSE "none")]

\* the values the two time.time() calls (lines 109 and 139) can return in this run; the
\* first call is made only when the session-state block runs
ClockReads(reset_controller) ==
    { r \in [t109 : now..MaxClock, t139 : now..MaxClock] :
        /\ r.t109 - now \in ClockSteps
        /\ r.t139 - r.t109 \in ClockSteps
        /\ ~(~has_history \/ reset_controller) => r.t109 = now }

\* what the operator can pick when the connect block runs: address and characteristic
LinkChoices(connect_bluetooth) ==
    IF ConnectCondition(connect_bluetooth, bluetooth)
    THEN Addresses \X Characteristics
    ELSE { << bluetooth, char_uuid >> }

\* what every run writes, whatever its path
Finish(c, ss, p, bt, ch, run, lim, m, u, h, calls, exc, app, t) ==
    /\ Len(h.time) <= MaxHist
    /\ Abs(p.integral) <= MaxIntegral
    /\ pid' = p
    /\ bluetooth' = bt
    /\ char_uuid' = ch
    /\ running' = run
    /\ has_history' = TRUE
    /\ history' = h
    /\ start_time' = ss.start_time
    /\ now' = t
    /\ cfg' = c
    /\ clip_limit' = lim
    /\ measurement' = m
    /\ control_output' = u
    /\ io' = calls
    /\ raised' = exc
    /\ appended' = app
    /\ rerun' = (run /\ ~exc)

\* a link call of lines 127-129 raises: the run stops inside the connect block
RunConnectRaises ==
    \E g \in GainSettings, es \in BOOLEAN, k \in 1..3 :
      \E clk \in ClockReads(FALSE) :
        LET c == Config(es, "connect_bluetooth")
            ss == SessionStateBlock(FALSE, history, start_time, pid, clk.t109)
            p1 == RefreshGains(ss.pid, g)
        IN  /\ ConnectCondition(TRUE, bluetooth)
            /\ clk.t139 = clk.t109
            /\ Finish(c, ss, p1, bluetooth, char_uuid, running, <<>>, <<>>, <<>>, ss.history,
                      RaisedConnectIo(k), TRUE, FALSE, clk.t109)

\* lines 141-146
RunEmergencyStop ==
    \E g \in GainSettings, setpoint \in Setpoints, b \in Buttons :
      \E clk \in ClockReads(b = "reset_controller"),
         lc \in LinkChoices(b = "connect_bluetooth") :
        LET c == Config(TRUE, b)
            ss == SessionStateBlock(c.reset_controller, history, start_time, pid, clk.t109)
            p1 == RefreshGains(ss.pid, g)
            cb == ConnectBlock(c.connect_bluetooth, bluetooth, char_uuid, lc[1], lc[2])
            es == EmergencyStopBranch(p1, ss.history, setpoint, clk.t139 - ss.start_time)
        IN  Finish(c, ss, es.pid, cb.bluetooth, cb.char_uuid, es.running, <<>>,
                   es.measurement, es.control_output, es.history, cb.io \o es.io, FALSE,
                   es.appended, clk.t139)

\* lines 147-161 with no link attached
RunWithoutLink ==
    \E g \in GainSettings, setpoint \in Setpoints, motor_output_limit \in OutputLimits,
       b \in Buttons \ { "connect_bluetooth" } :
      \E clk \in ClockReads(b = "reset_controller") :
        LET c == Config(FALSE, b)
            ss == SessionStateBlock(c.reset_controller, history, start_time, pid, clk.t109)
            p1 == RefreshGains(ss.pid, g)
            m == DefaultMeasurement
            u == Clip(PIDUpdateControl(p1, setpoint, m),
                      -(DtInv * motor_output_limit), DtInv * motor_output_limit)
        IN  /\ bluetooth = None
            /\ Finish(c, ss, PIDUpdateState(p1, setpoint, m), bluetooth, char_uuid, TRUE,
                      << motor_output_limit >>, << m >>, << u >>,
                      AppendSample(ss.history, clk.t139 - ss.start_time, m, u, setpoint - m),
                      <<>>, FALSE, TRUE, clk.t139)

\* lines 147-161 with a link attached, the read and the write returning
RunWithLink ==
    \E g \in GainSettings, setpoint \in Setpoints, motor_output_limit \in OutputLimits,
       b \in Buttons, data \in Payloads :
      \E clk \in ClockReads(b = "reset_controller"),
         lc \in LinkChoices(b = "connect_bluetooth") :
        LET c == Config(FALSE, b)
            ss == SessionStateBlock(c.reset_controller, history, start_time, pid, clk.t109)
            p1 == RefreshGains(ss.pid, g)
            cb == ConnectBlock(c.connect_bluetooth, bluetooth, char_uuid, lc[1], lc[2])
            m == ReadValue(data)[1]
            u == Clip(PIDUpdateControl(p1, setpoint, m),
                      -(DtInv * motor_output_limit), DtInv * motor_output_limit)
        IN  /\ cb.bluetooth # None
            /\ ReadError(data) = "none"
            /\ Finish(c, ss, PIDUpdateState(p1, setpoint, m), cb.bluetooth, cb.char_uuid, TRUE,
                      << motor_output_limit >>, << m >>, << u >>,
                      AppendSample(ss.history, clk.t139 - ss.start_time, m, u, setpoint - m),
                      cb.io \o << LinkCall("read_measurement", << m >>, "none"),
                                  LinkCall("send_control_output", << u >>, "none") >>,
                      FALSE, TRUE, clk.t139)

\* line 151 raises: the GATT read fails ("raised"), or its payload does not decode or parse
RunReadRaises ==
    \E g \in GainSettings, b \in Buttons, data \in Payloads \cup { GattReadFails } :
      \E clk \in ClockReads(b = "reset_controller"),
         lc \in LinkChoices(b = "connect_bluetooth") :
        LET c == Config(FALSE, b)
            ss == SessionStateBlock(c.reset_controller, history, start_time, pid, clk.t109)
            p1 == RefreshGains(ss.pid, g)
            cb == ConnectBlock(c.connect_bluetooth, bluetooth, char_uuid, lc[1], lc[2])
            err == IF data \in Payloads THEN ReadError(data) ELSE "raised"
        IN  /\ cb.bluetooth # None
            /\ err # "none"
            /\ Finish(c, ss, p1, cb.bluetooth, cb.char_uuid, TRUE, <<>>,
                      << DefaultMeasurement >>, <<>>, ss.history,
                      cb.io \o << LinkCall("read_measurement", <<>>, err) >>,
                      TRUE, FALSE, clk.t139)

\* line 155 raises: the GATT write fails after the PID update and the clip
RunWriteRaises ==
    \E g \in GainSettings, setpoint \in Setpoints, motor_output_limit \in OutputLimits,
       b \in Buttons, data \in Payloads :
      \E clk \in ClockReads(b = "reset_controller"),
         lc \in LinkChoices(b = "connect_bluetooth") :
        LET c == Config(FALSE, b)
            ss == SessionStateBlock(c.reset_controller, history, start_time, pid, clk.t109)
            p1 == RefreshGains(ss.pid, g)
            cb == ConnectBlock(c.connect_bluetooth, bluetooth, char_uuid, lc[1], lc[2])
            m == ReadValue(data)[1]
            u == Clip(PIDUpdateControl(p1, setpoint, m),
                      -(DtInv * motor_output_limit), DtInv * motor_output_limit)
        IN  /\ cb.bluetooth # None
            /\ ReadError(data) = "none"
            /\ Finish(c, ss, PIDUpdateState(p1, setpoint, m), cb.bluetooth, cb.char_uuid, TRUE,
                      << motor_output_limit >>, << m >>, << u >>, ss.history,
                      cb.io \o << LinkCall("read_measurement", << m >>, "none"),
                                  LinkCall("send_control_output", << u >>, "raised") >>,
                      TRUE, FALSE, clk.t139)

Next ==
    \/ RunConnectRaises
    \/ RunEmergencyStop
    \/ RunWithoutLink
    \/ RunWithLink
    \/ RunReadRaises
    \/ RunWriteRaises

Spec == Init /\ [][Next]_vars

TypeOK ==
    /\ pid.integral \in -MaxIntegral..MaxIntegral
    /\ bluetooth \in Addresses \cup { None }
    /\ running \in BOOLEAN
    /\ Len(history.time) \in 0..MaxHist
    /\ Len(history.measurement) = Len(history.time)
    /\ Len(history.control) = Len(history.time)
    /\ Len(history.error) = Len(history.time)
    /\ start_time \in 0..MaxClock
    /\ now \in start_time..MaxClock

\* ---- helpers of the properties ----
Last(q) == q[Len(q)]
Calls(calls, ops) == { i \in 1..Len(calls) : calls[i].op \in ops }
ConnectOps == { "BluetoothLink", "connect", "list_characteristics" }
TransferOps == { "read_measurement", "send_control_output" }
WithinLimit(u, lim) == -(DtInv * lim) <= u /\ u <= DtInv * lim
PidZero(p) == p.integral = 0 /\ p.previous_error = 0 /\ ~p.has_previous

\* C1: the control value of the sample a run appends, and every control value a run hands
\* to send_control_output, lies within [-motor_output_limit, motor_output_limit] of that run.
C1_ControlWithinLimit ==
    /\ appended =>
          /\ clip_limit # <<>>
          /\ WithinLimit(Last(history.control), clip_limit[1])
    /\ \A i \in Calls(io, { "send_control_output" }) :
          /\ clip_limit # <<>>
          /\ WithinLimit(io[i].val[1], clip_limit[1])

\* C1 witness: a run with a link attached wrote and logged a control value that the clip
\* had to cut to the negative limit.
C1_Witness ==
    /\ appended
    /\ bluetooth # None
    /\ \E i \in Calls(io, { "send_control_output" }) :
          io[i].err = "none" /\ io[i].val[1] = -(DtInv * clip_limit[1])
    /\ Last(history.control) = -(DtInv * clip_limit[1])
    /\ pid.integral # 0

\* C2 (as claimed): after a run with emergency_stop set, no control output other than 0
\* was produced and the PID state (integral, previous error) is zero.
C2_EmergencyStopZeroesPid ==
    cfg.emergency_stop =>
        /\ control_output \in { <<>>, << 0 >> }
        /\ PidZero(pid)

\* C3: a run with emergency_stop set and reset_controller not pressed leaves the four
\* history lists as they were and calls neither read_measurement nor send_control_output.
C3_StopSuppressesLogAndIo ==
    [][ (cfg'.emergency_stop /\ ~cfg'.reset_controller) =>
            /\ history' = history
            /\ Calls(io', TransferOps) = {} ]_vars

\* C3 witness: an emergency-stop run without reset has completed with a link attached and
\* samples in the history.
C3_Witness ==
    /\ cfg.emergency_stop
    /\ ~cfg.reset_controller
    /\ ~raised
    /\ ~running
    /\ bluetooth # None
    /\ Len(history.time) >= 2

\* C4 (as claimed): after every run with emergency_stop set, running is False
\* (the state is EMERGENCY_STOPPED), whatever the connect block did in that run.
C4_EmergencyStopAlwaysStops == cfg.emergency_stop => ~running

C8_AttachedLinkStays ==
    [][ bluetooth # None =>
            /\ bluetooth' = bluetooth
            /\ char_uuid' = char_uuid
            /\ Calls(io', ConnectOps) = {} ]_vars

\* C8 witness: connect was pressed in a run that found a link already attached (the run
\* made no connect call, yet a link is attached after it).
C8_Witness ==
    /\ cfg.connect_bluetooth
    /\ bluetooth # None
    /\ Calls(io, ConnectOps) = {}
    /\ Calls(io, TransferOps) # {}

\* C9: a run that updates the PID with no link attached uses, and logs, the measurement of
\* the sample that was last in the history when the run appended (0 when there was none).
C9_NoLinkMeasurementIsLastLogged ==
    (bluetooth = None /\ appended) =>
        LET n == Len(history.measurement)
        IN  /\ measurement = << history.measurement[n] >>
            /\ history.measurement[n] = IF n = 1 THEN 0 ELSE history.measurement[n - 1]

\* C9 witness: a run without a link appended a sample to a history that already held one.
C9_Witness ==
    /\ bluetooth = None
    /\ appended
    /\ Len(history.measurement) >= 2
    /\ ~cfg.reset_controller

\* C10: the time list of the history is >= 0 and non-decreasing in append order.
C10_TimeNonDecreasing ==
    /\ \A i \in 1..Len(history.time) : history.time[i] >= 0
    /\ \A i \in 1..(Len(history.time) - 1) : history.time[i] <= history.time[i + 1]

\* C10 witness: the history holds two samples, the later logged at a later time, and an
\* emergency-stop run that appended nothing has come after them.
C10_Witness ==
    /\ Len(history.time) >= 2
    /\ history.time[1] < history.time[2]
    /\ cfg.emergency_stop
    /\ ~raised

====
